---- MODULE Spec2Model ----
(***************************************************************************)
(* Composite / collection store (ariakit-core composite-store.ts) and the  *)
(* tooltip store (createTooltipStore), modelled as state machines.         *)
(*                                                                         *)
(* Values of the program that are not strings are encoded as strings:     *)
(*   undefined -> Undefined, null -> Null, a missing rowId -> NoRow,       *)
(*   focusLoop / focusWrap false,true -> "false","true".                   *)
(***************************************************************************)
EXTENDS Integers, Sequences, FiniteSets, TLC

VARIABLES
  \* ---- composite / collection store state ----
  items,               \* store.items
  privRendered,        \* privateStore.renderedItems
  renderedItems,       \* store.renderedItems (public, shared with composite)
  activeId, moves,
  orientation, rtl, focusLoop, focusWrap, focusShift, includesBaseElement,
  raf,                 \* number of requestAnimationFrame(sortItems) pending
  observing,           \* the listener and observer of setup are in place
  cache,               \* the single-entry cache of item(id)
  cbs,                 \* unregister callbacks returned and not yet invoked
  regs,                \* number of registerItem / renderItem calls made
  \* ---- last call made on the store (observation of the interface) ----
  op,                  \* name of the last call
  arg,                 \* its id argument (move, setActiveId, registerItem)
  skipArg,             \* its skip argument (next, previous, up, down)
  result,              \* the id it returned
  cb,                  \* the unregister callback it returned or invoked
  snap,                \* the lists before the last registerItem / renderItem,
                       \* kept while only its own callback is invoked
  \* ---- tooltip stores ----
  activeRef,           \* tooltips.activeRef
  dOpen,               \* disclosure.open of every tooltip store
  tOpen,               \* tooltip.open of every tooltip store
  timer,               \* pending afterTimeout of the disclosure.sync listener
  timeout,             \* tooltip.timeout
  live                 \* tooltip store is set up (not torn down)

compositeVars == <<items, privRendered, renderedItems, activeId, moves,
                   orientation, rtl, focusLoop, focusWrap, focusShift,
                   includesBaseElement, raf, observing, cache, cbs, regs>>
callVars == <<op, arg, skipArg, result, cb, snap>>
tooltipVars == <<activeRef, dOpen, tOpen, timer, timeout, live>>
vars == <<compositeVars, callVars, tooltipVars>>

(***************************************************************************)
(* Encodings                                                               *)
(***************************************************************************)
Undefined == "undefined"
Null == "null"
NoRow == ""
EMPTY_ITEM_ID == "__EMPTY_ITEM__"
\* skip parameter left out (skip === undefined)
NoSkip == -100

\* the optional `children` field is not set
NoChildren == ""

\* element: document position of the item's element (compareDocumentPosition
\* orders elements by it)
Item(id, rowId, disabled, element) ==
  [id |-> id, rowId |-> rowId, disabled |-> disabled, element |-> element,
   children |-> NoChildren]

\* the result of Array.prototype.find when nothing matches; `?.id` of it is
\* undefined
NoItem == Item(Undefined, NoRow, FALSE, 0)

\* variant: the null item counts as disabled
NULL_ITEM_Disabled == Item(Null, NoRow, TRUE, 0)

NULL_ITEM == Item(Null, NoRow, FALSE, 0)

Truthy(v) == v \notin {"false", "", Undefined, Null}

(***************************************************************************)
(* utils/array                                                             *)
(***************************************************************************)
reverseArray(s) == [i \in 1..Len(s) |-> s[Len(s) + 1 - i]]

RECURSIVE flatten2DArray(_)
flatten2DArray(rows) ==
  IF rows = <<>> THEN <<>> ELSE Head(rows) \o flatten2DArray(Tail(rows))

\* index of the first element of s whose id is id, 0 when there is none
FindIndex(s, id) ==
  IF \E i \in 1..Len(s) : s[i].id = id
  THEN CHOOSE i \in 1..Len(s) :
         s[i].id = id /\ \A j \in 1..(i - 1) : s[j].id # id
  ELSE 0

(***************************************************************************)
(* composite-store.ts helpers                                              *)
(***************************************************************************)
\* variant: the disabled flag is not looked at
IsEnabledNot_IgnoresDisabled(item, excludeId) ==
  ~Truthy(excludeId) \/ item.id # excludeId

IsEnabledNot(item, excludeId) ==
  IF Truthy(excludeId)
  THEN ~item.disabled /\ item.id # excludeId
  ELSE ~item.disabled

getEnabledItems(its, excludeId) ==
  SelectSeq(its, LAMBDA item : IsEnabledNot(item, excludeId))

findFirstEnabledItem(its, excludeId) ==
  LET en == getEnabledItems(its, excludeId)
  IN IF en = <<>> THEN NoItem ELSE en[1]

getOppositeOrientation(o) ==
  IF o = "vertical" THEN "horizontal"
  ELSE IF o = "horizontal" THEN "vertical"
  ELSE Undefined

getItemsInRow(its, rowId) == SelectSeq(its, LAMBDA item : item.rowId = rowId)

\* variant: the items before the active one come first
flipItems_HeadFirst(its, aId, shouldInsertNullItem) ==
  SubSeq(its, 1, FindIndex(its, aId) - 1)
    \o (IF shouldInsertNullItem THEN <<NULL_ITEM>> ELSE <<>>)
    \o SubSeq(its, FindIndex(its, aId) + 1, Len(its))

\* variant: the items before the active one are not appended
flipItems_NoWrapAround(its, aId, shouldInsertNullItem) ==
  SubSeq(its, FindIndex(its, aId) + 1, Len(its))
    \o (IF shouldInsertNullItem THEN <<NULL_ITEM>> ELSE <<>>)

flipItems(its, aId, shouldInsertNullItem) ==
  LET index == FindIndex(its, aId)
  IN SubSeq(its, index + 1, Len(its))
       \o (IF shouldInsertNullItem THEN <<NULL_ITEM>> ELSE <<>>)
       \o (IF index = 0
           \* findIndex gives -1: slice(0, -1) drops the last element
           THEN SubSeq(its, 1, Len(its) - 1)
           ELSE SubSeq(its, 1, index - 1))

\* variant: an id that names no item of the list is recomputed too
getActiveId_HealsStale(its, aId) ==
  IF aId # Undefined /\ (aId = Null \/ \E i \in 1..Len(its) : its[i].id = aId)
  THEN aId
  ELSE findFirstEnabledItem(its, Undefined).id

getActiveId(its, aId) ==
  IF aId # Undefined THEN aId ELSE findFirstEnabledItem(its, Undefined).id

RECURSIVE groupItemsByRowsAcc(_, _)
groupItemsByRowsAcc(its, rows) ==
  IF its = <<>> THEN rows
  ELSE LET item == Head(its)
           hit == {k \in 1..Len(rows) : rows[k][1].rowId = item.rowId}
       IN IF hit # {}
          THEN LET k == CHOOSE k \in hit : \A j \in hit : k <= j
               IN groupItemsByRowsAcc(Tail(its),
                    [rows EXCEPT ![k] = Append(@, item)])
          ELSE groupItemsByRowsAcc(Tail(its), Append(rows, <<item>>))

groupItemsByRows(its) == groupItemsByRowsAcc(its, <<>>)

getMaxRowLength(rows) ==
  IF rows = <<>> THEN 0
  ELSE CHOOSE m \in {Len(rows[k]) : k \in 1..Len(rows)} :
         \A k \in 1..Len(rows) : Len(rows[k]) <= m

\* variant: the placeholder is not disabled
createEmptyItem_Enabled(rowId) == Item(EMPTY_ITEM_ID, rowId, FALSE, 0)

createEmptyItem(rowId) == Item(EMPTY_ITEM_ID, rowId, TRUE, 0)

\* the inner loop of normalizeRows on one row, from (1-based) column i on
RECURSIVE normalizeRow(_, _, _, _, _)
normalizeRow(row, i, maxLength, aId, shift) ==
  IF i > maxLength THEN row
  ELSE LET hasItem == i <= Len(row)
       IN IF hasItem /\ ~(shift /\ row[i].disabled)
          THEN normalizeRow(row, i + 1, maxLength, aId, shift)
          ELSE LET isFirst == i = 1
                   previousItem ==
                     IF isFirst /\ shift
                     THEN findFirstEnabledItem(row, Undefined)
                     ELSE IF isFirst THEN NoItem ELSE row[i - 1]
                   newItem ==
                     IF previousItem # NoItem /\ aId # previousItem.id /\ shift
                     THEN previousItem
                     ELSE createEmptyItem(previousItem.rowId)
                   row2 == IF hasItem THEN [row EXCEPT ![i] = newItem]
                           ELSE Append(row, newItem)
               IN normalizeRow(row2, i + 1, maxLength, aId, shift)

\* variant: the rows are padded with placeholders only, no cell is replaced
\* by an item of its row
normalizeRows_PadOnly(rows, aId, shift) ==
  LET maxLength == getMaxRowLength(rows)
  IN [k \in 1..Len(rows) |-> normalizeRow(rows[k], 1, maxLength, aId, FALSE)]

normalizeRows(rows, aId, shift) ==
  LET maxLength == getMaxRowLength(rows)
  IN [k \in 1..Len(rows) |-> normalizeRow(rows[k], 1, maxLength, aId, shift)]

\* `${i}` for the 0-based column index i
ColumnRowId(i) == ToString(i)

RECURSIVE verticalizeAcc(_, _, _, _)
verticalizeAcc(rows, i, k, acc) ==
  \* i: 1-based column, k: 1-based row
  IF i > getMaxRowLength(rows) THEN acc
  ELSE IF k > Len(rows) THEN verticalizeAcc(rows, i + 1, 1, acc)
  ELSE IF i <= Len(rows[k])
       THEN verticalizeAcc(rows, i, k + 1,
              Append(acc, [rows[k][i] EXCEPT
                !.rowId = IF Truthy(rows[k][i].rowId)
                          THEN ColumnRowId(i - 1) ELSE NoRow]))
       ELSE verticalizeAcc(rows, i, k + 1, acc)

\* variant: the items stay in row-major order with their row ids
verticalizeItems_RowMajor(its) == flatten2DArray(groupItemsByRows(its))

verticalizeItems(its) == verticalizeAcc(groupItemsByRows(its), 1, 1, <<>>)

(***************************************************************************)
(* createCompositeStore: navigation primitives.  They read activeId, rtl,  *)
(* focusLoop, focusWrap, includesBaseElement, ... from the store state;    *)
(* the active id is a parameter (aId) so that a primitive can also be      *)
(* evaluated "from" another item.                                          *)
(***************************************************************************)
\* variant: rtl mirrors the vertical order too
IsRTL_AnyAxis(r, orient) == r

\* RTL doesn't make sense on vertical navigation
IsRTL(r, orient) ==
  LET isHorizontal == orient # "vertical"
  IN r /\ isHorizontal

\* variant: no fallback to the last item
SkipTo_NoClamp(en, skip) ==
  IF skip >= 0 /\ skip + 1 <= Len(en) THEN en[skip + 1] ELSE NoItem

\* en.slice(skip)[0] || en[en.length - 1]
SkipTo(en, skip) ==
  LET \* slice(skip): a negative skip counts from the end
      start == IF skip >= 0 THEN skip + 1
               ELSE IF Len(en) + skip >= 0 THEN Len(en) + skip + 1
               ELSE 1
  IN IF start <= Len(en) THEN en[start]
     ELSE IF en # <<>> THEN en[Len(en)]
     ELSE NoItem

\* variant: focusWrap is never applied
CanWrap_Never(isGrid, oppositeOrientation) == FALSE

\* isGrid && focusWrap && focusWrap !== oppositeOrientation
CanWrap(isGrid, oppositeOrientation) ==
  isGrid /\ Truthy(focusWrap) /\ focusWrap # oppositeOrientation

\* getNextId in a state whose rtl is r
getNextIdWith(r, its, orient, hasNullItem0, skip, aId) ==
  LET isRTL == IsRTL(r, orient)
      allItems == IF isRTL THEN reverseArray(its) ELSE its
      activeIndex == FindIndex(allItems, aId)
  IN IF aId \in {Null, Undefined} \/ activeIndex = 0
     THEN findFirstEnabledItem(allItems, Undefined).id
     ELSE
       LET activeItem == allItems[activeIndex]
           isGrid == Truthy(activeItem.rowId)
           nextItems == SubSeq(allItems, activeIndex + 1, Len(allItems))
           nextItemsInRow == getItemsInRow(nextItems, activeItem.rowId)
       IN IF skip # NoSkip
          THEN SkipTo(getEnabledItems(nextItemsInRow, aId), skip).id
          ELSE
            LET oppositeOrientation == getOppositeOrientation(orient)
                canLoop == Truthy(focusLoop) /\ focusLoop # oppositeOrientation
                canWrap == CanWrap(isGrid, oppositeOrientation)
                hasNullItem == hasNullItem0
                                 \/ (~isGrid /\ canLoop /\ includesBaseElement)
            IN IF canLoop
               THEN LET loopItems == IF canWrap /\ ~hasNullItem THEN allItems
                                     ELSE getItemsInRow(allItems, activeItem.rowId)
                        sortedItems == flipItems(loopItems, aId, hasNullItem)
                    IN findFirstEnabledItem(sortedItems, aId).id
               ELSE IF canWrap
               THEN LET nextItem == findFirstEnabledItem(
                          IF hasNullItem THEN nextItemsInRow ELSE nextItems, aId)
                    IN IF hasNullItem /\ nextItem = NoItem THEN Null
                       ELSE nextItem.id
               ELSE LET nextItem == findFirstEnabledItem(nextItemsInRow, aId)
                    IN IF nextItem = NoItem /\ hasNullItem THEN Null
                       ELSE nextItem.id

getNextId(its, orient, hasNullItem0, skip, aId) ==
  getNextIdWith(rtl, its, orient, hasNullItem0, skip, aId)

\* variant: first() mirrors the order under rtl
first_Mirrored ==
  findFirstEnabledItem(
    IF rtl THEN reverseArray(renderedItems) ELSE renderedItems, Undefined).id

\* variant: first() skips the active item
first_SkipsActive == findFirstEnabledItem(renderedItems, activeId).id

first == findFirstEnabledItem(renderedItems, Undefined).id

last == findFirstEnabledItem(reverseArray(renderedItems), Undefined).id

\* variant: next offers the container as previous does
next_NullItem(skip, aId) ==
  getNextId(renderedItems, orientation, includesBaseElement, skip, aId)

next(skip, aId) == getNextId(renderedItems, orientation, FALSE, skip, aId)

\* variant: previous offers the container whenever the composite is not a
\* grid
previous_AlwaysNullItem(skip, aId) ==
  LET isGrid == Truthy(findFirstEnabledItem(renderedItems, Undefined).rowId)
  IN getNextId(reverseArray(renderedItems), orientation, ~isGrid, skip, aId)

previous(skip, aId) ==
  LET isGrid == Truthy(findFirstEnabledItem(renderedItems, Undefined).rowId)
      hasNullItem == ~isGrid /\ includesBaseElement
  IN getNextId(reverseArray(renderedItems), orientation, hasNullItem, skip, aId)

\* focusShift && !skip: !skip is true for skip undefined and for skip 0
\* variant: focusShift is never applied
shouldShift_Never(skip) == FALSE

shouldShift(skip) == focusShift /\ (skip = NoSkip \/ skip = 0)

\* down in a state whose rtl is r
downWith(r, skip, aId) ==
  LET verticalItems ==
        verticalizeItems(flatten2DArray(
          normalizeRows(groupItemsByRows(renderedItems), aId, shouldShift(skip))))
      canLoop == Truthy(focusLoop) /\ focusLoop # "horizontal"
      hasNullItem == canLoop /\ includesBaseElement
  IN getNextIdWith(r, verticalItems, "vertical", hasNullItem, skip, aId)

down(skip, aId) == downWith(rtl, skip, aId)

\* up in a state whose rtl is r
upWith(r, skip, aId) ==
  LET verticalItems ==
        verticalizeItems(reverseArray(flatten2DArray(
          normalizeRows(groupItemsByRows(renderedItems), aId, shouldShift(skip)))))
      hasNullItem == includesBaseElement
  IN getNextIdWith(r, verticalItems, "vertical", hasNullItem, skip, aId)

up(skip, aId) == upWith(rtl, skip, aId)

(***************************************************************************)
(* Bounds and input domains                                                *)
(***************************************************************************)
\* longest one-dimensional list of rendered items
MaxItems == 3
\* most rows / longest row of a grid
MaxRows == 2
MaxCols == 2

IdNames == <<"A", "B", "C", "D", "E", "F", "G", "H", "I", "J", "K", "L">>
RowNames == <<"r1", "r2", "r3", "r4">>
\* an id that no item has
StaleId == "Z"

RECURSIVE SumTo(_, _)
SumTo(lens, k) == IF k = 0 THEN 0 ELSE lens[k] + SumTo(lens, k - 1)

RowOf(lens, p) ==
  CHOOSE k \in 1..Len(lens) : SumTo(lens, k - 1) < p /\ p <= SumTo(lens, k)

\* rendered lists without rows, in document order
OneDimLists ==
  UNION {{[p \in 1..n |-> Item(IdNames[p], NoRow, mask[p], p)] :
            mask \in [1..n -> BOOLEAN]} : n \in 0..MaxItems}

\* rendered grids: rows of 1..MaxCols items, in document order
GridLists ==
  UNION {UNION {{[p \in 1..SumTo(lens, R) |->
                    Item(IdNames[p], RowNames[RowOf(lens, p)], mask[p], p)] :
                   mask \in [1..SumTo(lens, R) -> BOOLEAN]} :
                 lens \in [1..R -> 1..MaxCols]} : R \in 1..MaxRows}

Compositions == OneDimLists \cup GridLists

IdsOf(its) == {its[i].id : i \in 1..Len(its)}

LoopValues == {"false", "true", "horizontal", "vertical", "both"}
WrapValues == {"false", "true"}
Orientations == {"horizontal", "vertical", "both"}

(***************************************************************************)
(* Navigation calls on a composite store whose items are rendered and      *)
(* reconciled.  The primitives only read the state.                        *)
(***************************************************************************)
\* the lists before the last call: items, the private and the public
\* renderedItems; and the item passed to registerItem / renderItem
NoSnap == [of |-> 0, call |-> "none", items |-> <<>>, rendered |-> <<>>,
           published |-> <<>>, item |-> NoItem]

\* the cache of item(id) after construction (589-593): no id; `list` is the
\* array cache.items refers to and `fresh` says that it is the array the
\* store holds (cache.items === items)
NoCache == [id |-> Null, list |-> <<>>, item |-> NoItem, fresh |-> TRUE]

\* the store is given a new items array: the cache refers to the old one
NewItemsArray(c) == [c EXCEPT !.fresh = FALSE]

NoCall == /\ op = "init" /\ arg = Undefined /\ skipArg = NoSkip
          /\ result = Undefined /\ cb = 0 /\ snap = NoSnap

TooltipIdle ==
  /\ activeRef = 0 /\ dOpen = <<>> /\ tOpen = <<>> /\ timer = <<>>
  /\ timeout = <<>> /\ live = <<>>

NavStore ==
  /\ renderedItems \in Compositions
  /\ items = renderedItems /\ privRendered = renderedItems
  /\ activeId \in IdsOf(renderedItems) \cup {Null, Undefined, StaleId}
  /\ moves = 0 /\ raf = 0 /\ observing = FALSE /\ cbs = <<>> /\ regs = 0
  /\ cache = NoCache
  /\ rtl \in BOOLEAN
  /\ focusLoop \in LoopValues
  /\ focusWrap \in WrapValues
  /\ includesBaseElement \in BOOLEAN

\* first, last, next, previous never read focusShift
InitNav == NavStore /\ orientation \in Orientations /\ focusShift = FALSE
             /\ NoCall /\ TooltipIdle

\* up, down never read orientation
InitGrid == NavStore /\ orientation = "both" /\ focusShift \in BOOLEAN
              /\ NoCall /\ TooltipIdle

\* variant: the rows share storage with state.renderedItems, so the
\* placeholders normalizeRows writes show up in the state
RenderedAfter_SharedRows(name, skip) ==
  IF name \in {"down", "up"}
  THEN flatten2DArray(normalizeRows(groupItemsByRows(renderedItems),
                                    activeId, shouldShift(skip)))
  ELSE renderedItems

\* state.renderedItems after a primitive has run: the primitives write
\* (row[i] = ..., rows.push, verticalized.push) only to arrays they built
\* themselves, and verticalizeItems copies the items it relabels
RenderedAfter(name, skip) == renderedItems

\* largest skip passed to a primitive
MaxSkip == 2
\* the skip argument of next, previous, down and up: absent or 0..MaxSkip
NavSkips == {NoSkip} \cup 0..MaxSkip

\* a primitive is applied to a store on which no call is recorded yet:
\* the record of a call is not part of the store
Call(name, s, r) ==
  /\ op = "init"
  /\ op' = name /\ skipArg' = s /\ result' = r
  /\ renderedItems' = RenderedAfter(name, s)
  /\ UNCHANGED <<arg, cb, snap>>
  /\ UNCHANGED <<items, privRendered, activeId, moves, orientation, rtl,
                 focusLoop, focusWrap, focusShift, includesBaseElement,
                 raf, observing, cache, cbs, regs>>
  /\ UNCHANGED tooltipVars

CallFirst == Call("first", NoSkip, first)
CallLast == Call("last", NoSkip, last)
CallNext == \E s \in NavSkips : Call("next", s, next(s, activeId))
CallPrevious == \E s \in NavSkips : Call("previous", s, previous(s, activeId))
CallDown == \E s \in NavSkips : Call("down", s, down(s, activeId))
CallUp == \E s \in NavSkips : Call("up", s, up(s, activeId))

NextNav == CallFirst \/ CallLast \/ CallNext \/ CallPrevious
SpecNav == InitNav /\ [][NextNav]_vars

NextGrid == CallDown \/ CallUp
SpecGrid == InitGrid /\ [][NextGrid]_vars

\* all six primitives, each called on every store of InitPrimitives; the
\* four that never read focusShift are called with focusShift unset, up and
\* down (which never read orientation) with orientation "both"
InitPrimitives == InitNav \/ InitGrid
NextPrimitives ==
  \/ ~focusShift /\ NextNav
  \/ orientation = "both" /\ NextGrid
SpecPrimitives == InitPrimitives /\ [][NextPrimitives]_vars

(***************************************************************************)
(* createCollectionStore: registration and reconciliation                  *)
(***************************************************************************)
\* an empty slot of a sparse array (nextItems[index] = prevItem past the end)
HOLE == [Item("__HOLE__", NoRow, TRUE, 0) EXCEPT !.children = "__HOLE__"]

\* items.find(({ id }) => id === x) dereferences a hole it meets before the
\* first match: TypeError
FindThrows(its, id) ==
  \E i \in 1..Len(its) :
     its[i] = HOLE /\ \A j \in 1..(i - 1) : its[j].id # id

\* variant: the previous entry is replaced, not merged
MergeFields_Replaces(prevItem, item) == item

\* { ...prevItem, ...item }: fields of item win, fields it lacks are kept
MergeFields(prevItem, item) ==
  [item EXCEPT !.children =
     IF item.children = NoChildren THEN prevItem.children ELSE item.children]

\* nextItems[index] = x, growing the array (with holes) when index is past
\* its end
SetAt(its, index, x) ==
  [i \in 1..(IF index > Len(its) THEN index ELSE Len(its)) |->
     IF i = index THEN x ELSE IF i <= Len(its) THEN its[i] ELSE HOLE]

\* the list mergeItem's first setItems call produces
MergedItems(its, item) ==
  LET index == FindIndex(its, item.id)
  IN IF index # 0
     THEN [its EXCEPT ![index] = MergeFields(its[index], item)]
     ELSE Append(its, item)

\* what the unregisterItem closure of mergeItem remembers
NoClosure == [id |-> Undefined, hasPrev |-> FALSE, prevItem |-> NoItem, index |-> 0]

Closure(its, item) ==
  LET index == FindIndex(its, item.id)
  IN [id |-> item.id, hasPrev |-> index # 0,
      prevItem |-> IF index # 0 THEN its[index] ELSE NoItem, index |-> index]

\* variant: the item is removed even when it replaced a previous entry
UnregisteredItems_AlwaysRemoves(its, c) ==
  SelectSeq(its, LAMBDA x : x # HOLE /\ x.id # c.id)

\* the list unregisterItem produces (filter skips holes)
UnregisteredItems(its, c) ==
  IF ~c.hasPrev
  THEN SelectSeq(its, LAMBDA x : x # HOLE /\ x.id # c.id)
  ELSE SetAt(its, c.index, c.prevItem)

\* stable insertion of x by document position
RECURSIVE InsertByPosition(_, _)
InsertByPosition(sorted, x) ==
  IF sorted = <<>> THEN <<x>>
  ELSE IF sorted[Len(sorted)].element <= x.element THEN Append(sorted, x)
  ELSE Append(InsertByPosition(SubSeq(sorted, 1, Len(sorted) - 1), x),
              sorted[Len(sorted)])

RECURSIVE SortByPosition(_)
SortByPosition(its) ==
  IF its = <<>> THEN <<>>
  ELSE InsertByPosition(SortByPosition(SubSeq(its, 1, Len(its) - 1)),
                        its[Len(its)])

\* isOrderDifferent: some pair of items is out of document order
isOrderDifferent(its) ==
  \E i, j \in 1..Len(its) :
     /\ i < j /\ its[i] # HOLE /\ its[j] # HOLE
     /\ its[j].element < its[i].element

\* variant: the list is returned as it is
sortBasedOnDOMPosition_Unsorted(its) == its

\* Array.prototype.sort moves the holes to the end
sortBasedOnDOMPosition(its) ==
  IF isOrderDifferent(its)
  THEN SortByPosition(SelectSeq(its, LAMBDA x : x # HOLE))
         \o SelectSeq(its, LAMBDA x : x = HOLE)
  ELSE its

\* variant: the sorted list is a new array on every run
SortedIsNewList_Always(its) == TRUE

\* sortBasedOnDOMPosition returns a new array, not its argument: setting it
\* in the private store is a change
SortedIsNewList(its) == isOrderDifferent(its)

\* the listener of composite.sync(["renderedItems", "activeId"]): the value it
\* leaves in activeId.  findFirstEnabledItem dereferences a hole it meets
\* before the first enabled item (TypeError: activeId is not set).
SyncActiveId(its, aId) ==
  IF /\ aId = Undefined
     /\ \E i \in 1..Len(its) :
          its[i] = HOLE /\ \A j \in 1..(i - 1) : its[j].disabled
  THEN Undefined
  ELSE getActiveId(its, aId)

(***************************************************************************)
(* Bounds of the store life cycle                                          *)
(***************************************************************************)
\* ids of the items that get registered
MaxIds == 2
\* registerItem / renderItem calls in a run
MaxRegs == 3
\* unregister callbacks held at a time: at most one per call
MaxCbs == MaxRegs
\* calls of move counted
MaxMoves == 1
ItemIds == {IdNames[i] : i \in 1..MaxIds}
\* the element of an item is the same in every registration: the element of
\* the i-th id is at document position i
ElementOf(id) == CHOOSE i \in 1..Len(IdNames) : IdNames[i] = id
\* the items a composite item passes to renderItem: enabled or disabled
CompositeItems ==
  {Item(id, NoRow, d, ElementOf(id)) : id \in ItemIds, d \in BOOLEAN}
\* the items passed to a collection: with or without the optional field
CollectionItems ==
  {[Item(id, NoRow, FALSE, ElementOf(id)) EXCEPT !.children = c] :
     id \in ItemIds, c \in {NoChildren, "x"}}
MoveIds == ItemIds \cup {Null, Undefined, StaleId}

NoCb == [used |-> FALSE, rendered |-> FALSE, reg |-> NoClosure, ren |-> NoClosure]
FreeSlots == {k \in 1..MaxCbs : ~cbs[k].used}
Slot == CHOOSE k \in FreeSlots : \A j \in FreeSlots : k <= j

\* the composite store after construction and setup, with the default props;
\* includesBaseElement defaults to activeId === null
\* the default of includesBaseElement (neither the prop nor the synced
\* store gives it): activeId === null
DefaultIncludesBaseElement(aId) == aId = Null

InitStore ==
  /\ items = <<>> /\ privRendered = <<>> /\ renderedItems = <<>>
  /\ activeId \in {Undefined, Null}
  /\ includesBaseElement = DefaultIncludesBaseElement(activeId)
  /\ moves = 0
  /\ orientation = "both" /\ rtl = FALSE
  /\ focusLoop = "false" /\ focusWrap = "false" /\ focusShift = FALSE
  /\ raf = 1 /\ observing = TRUE /\ cache = NoCache
  /\ cbs = [k \in 1..MaxCbs |-> NoCb]
  /\ regs = 0

Init == InitStore /\ NoCall /\ TooltipIdle

Flags == <<orientation, rtl, focusLoop, focusWrap, focusShift,
           includesBaseElement>>

\* cancelAnimationFrame(raf) on n pending frames: the one frame the handle
\* names is dropped if it has not run yet
Cancelled(n) == IF n > 0 THEN n - 1 ELSE 0

\* variant: a new frame is requested without cancelling the pending one
Rescheduled_NoCancel(n) == n + 1

\* cancelAnimationFrame(raf); raf = requestAnimationFrame(sortItems)
Rescheduled(n) == Cancelled(n) + 1

\* a change of the private rendered list: the cleanup of the previous run
\* of the batchSync listener, then the listener again
FramesAfterChange(n) == IF observing THEN Rescheduled(n) ELSE n

\* registerItem(item)
RegisterItem(item) ==
  /\ FreeSlots # {} /\ regs < MaxRegs /\ regs' = regs + 1
  /\ op' = "registerItem" /\ arg' = item.id /\ skipArg' = NoSkip
  /\ IF FindThrows(items, item.id)
     THEN /\ result' = "TypeError" /\ cb' = 0 /\ snap' = NoSnap
          /\ UNCHANGED <<items, cbs>>
     ELSE /\ result' = Undefined /\ cb' = Slot
          /\ snap' = [of |-> Slot, call |-> "registerItem", items |-> items,
                      rendered |-> privRendered,
                      published |-> renderedItems, item |-> item]
          /\ items' = MergedItems(items, item)
          /\ cbs' = [cbs EXCEPT ![Slot] =
                       [used |-> TRUE, rendered |-> FALSE,
                        reg |-> Closure(items, item), ren |-> NoClosure]]
  /\ cache' = IF FindThrows(items, item.id) THEN cache ELSE NewItemsArray(cache)
  /\ UNCHANGED <<privRendered, renderedItems, activeId, moves, raf, Flags,
                 observing>>
  /\ UNCHANGED tooltipVars

\* renderItem(item): chain(registerItem(item), mergeItem(item, private list));
\* the change of the private list re-runs the batchSync listener, which
\* cancels the pending frame and requests a new one
RenderItem(item) ==
  /\ FreeSlots # {} /\ regs < MaxRegs /\ regs' = regs + 1
  /\ op' = "renderItem" /\ arg' = item.id /\ skipArg' = NoSkip
  /\ IF FindThrows(items, item.id)
     THEN /\ result' = "TypeError" /\ cb' = 0 /\ snap' = NoSnap
          /\ UNCHANGED <<items, privRendered, raf, cbs>>
     ELSE /\ items' = MergedItems(items, item)
          /\ IF FindThrows(privRendered, item.id)
             THEN /\ result' = "TypeError" /\ cb' = 0 /\ snap' = NoSnap
                  /\ UNCHANGED <<privRendered, raf, cbs>>
             ELSE /\ result' = Undefined /\ cb' = Slot
                  /\ snap' = [of |-> Slot, call |-> "renderItem",
                              items |-> items, rendered |-> privRendered,
                              published |-> renderedItems, item |-> item]
                  /\ privRendered' = MergedItems(privRendered, item)
                  /\ raf' = FramesAfterChange(raf)
                  /\ cbs' = [cbs EXCEPT ![Slot] =
                               [used |-> TRUE, rendered |-> TRUE,
                                reg |-> Closure(items, item),
                                ren |-> Closure(privRendered, item)]]
  /\ cache' = IF FindThrows(items, item.id) THEN cache ELSE NewItemsArray(cache)
  /\ UNCHANGED <<renderedItems, activeId, moves, Flags, observing>>
  /\ UNCHANGED tooltipVars

\* variant: the callback of renderItem undoes the registration only
RenderedAfterUnregister_RegistrationOnly(c) == privRendered

\* the private rendered list after the callback c: the callback of
\* renderItem chains the two unregisterItem closures
RenderedAfterUnregister(c) ==
  IF c.rendered THEN UnregisteredItems(privRendered, c.ren) ELSE privRendered

\* the callback returned by registerItem / renderItem
Unregister(k) ==
  /\ cbs[k].used
  /\ op' = "unregister" /\ arg' = cbs[k].reg.id /\ skipArg' = NoSkip
  /\ result' = Undefined /\ cb' = k
  /\ snap' = IF snap.of = k THEN snap ELSE NoSnap
  /\ items' = UnregisteredItems(items, cbs[k].reg)
  /\ privRendered' = RenderedAfterUnregister(cbs[k])
  /\ raf' = IF cbs[k].rendered THEN FramesAfterChange(raf) ELSE raf
  /\ cbs' = [cbs EXCEPT ![k] = NoCb]
  /\ cache' = NewItemsArray(cache)
  /\ UNCHANGED <<renderedItems, activeId, moves, Flags, regs, observing>>
  /\ UNCHANGED tooltipVars

\* the animation frame: sortItems, then the composite listener on the public
\* renderedItems
Frame ==
  /\ raf > 0
  /\ op' = "frame" /\ arg' = Undefined /\ skipArg' = NoSkip
  /\ result' = Undefined /\ cb' = 0
  /\ snap' = [of |-> 0, call |-> "frame", items |-> items,
              rendered |-> privRendered, published |-> renderedItems,
              item |-> NoItem]
  /\ privRendered' = sortBasedOnDOMPosition(privRendered)
  /\ renderedItems' = privRendered'
  /\ raf' = IF SortedIsNewList(privRendered)
            THEN FramesAfterChange(raf - 1) ELSE raf - 1
  /\ activeId' = SyncActiveId(renderedItems', activeId)
  /\ UNCHANGED <<items, moves, cbs, Flags, regs, observing, cache>>
  /\ UNCHANGED tooltipVars

\* the IntersectionObserver callback (after its first run)
Intersect ==
  /\ observing /\ privRendered # <<>>
  /\ op' = "intersect" /\ arg' = Undefined /\ skipArg' = NoSkip
  /\ result' = Undefined /\ cb' = 0 /\ snap' = NoSnap
  /\ raf' = Rescheduled(raf)
  /\ UNCHANGED <<items, privRendered, renderedItems, activeId, moves, cbs,
                 Flags, regs, observing, cache>>
  /\ UNCHANGED tooltipVars

\* the cleanup returned by setup: the listener is removed, its last cleanup
\* cancels the frame and disconnects the observer
SetupCleanup ==
  /\ observing /\ observing' = FALSE
  /\ op' = "cleanup" /\ arg' = Undefined /\ skipArg' = NoSkip
  /\ result' = Undefined /\ cb' = 0 /\ snap' = NoSnap
  /\ raf' = Cancelled(raf)
  /\ UNCHANGED <<items, privRendered, renderedItems, activeId, moves, cbs,
                 Flags, regs, cache>>
  /\ UNCHANGED tooltipVars

\* variant: setActiveId counts as a move
SetActiveIdResult_CountsMove(id) ==
  <<SyncActiveId(renderedItems, id), moves + 1>>

\* what setActiveId(id) leaves in <<activeId, moves>>
SetActiveIdResult(id) == <<SyncActiveId(renderedItems, id), moves>>

\* setActiveId(id)
SetActiveId(id) ==
  /\ op' = "setActiveId" /\ arg' = id /\ skipArg' = NoSkip
  /\ result' = Undefined /\ cb' = 0 /\ snap' = NoSnap
  /\ activeId' = SetActiveIdResult(id)[1]
  /\ moves' = SetActiveIdResult(id)[2]
  /\ UNCHANGED <<items, privRendered, renderedItems, raf, cbs, Flags, regs,
                 observing, cache>>
  /\ UNCHANGED tooltipVars

\* the focus event of the rendered item id: setActiveId(id) unless the item
\* is the active one already
Focus(id) ==
  /\ id \in IdsOf(privRendered)
  /\ op' = "focus" /\ arg' = id /\ skipArg' = NoSkip
  /\ result' = Undefined /\ cb' = 0 /\ snap' = NoSnap
  /\ IF activeId # id
     THEN /\ activeId' = SetActiveIdResult(id)[1]
          /\ moves' = SetActiveIdResult(id)[2]
     ELSE UNCHANGED <<activeId, moves>>
  /\ UNCHANGED <<items, privRendered, renderedItems, raf, cbs, Flags, regs,
                 observing, cache>>
  /\ UNCHANGED tooltipVars

\* variant: without the early return for undefined
MoveResult_NoEarlyReturn(id) ==
  <<SyncActiveId(renderedItems, id), moves + 1>>

\* variant: a move to the id that is already active is not counted
MoveResult_SameIdNotCounted(id) ==
  IF id = Undefined \/ id = activeId THEN <<activeId, moves>>
  ELSE <<SyncActiveId(renderedItems, id), moves + 1>>

\* what move(id) leaves in <<activeId, moves>>
MoveResult(id) ==
  IF id = Undefined THEN <<activeId, moves>>
  ELSE <<SyncActiveId(renderedItems, id), moves + 1>>

\* move(id)
Move(id) ==
  /\ id = Undefined \/ moves < MaxMoves
  /\ op' = "move" /\ arg' = id /\ skipArg' = NoSkip
  /\ result' = Undefined /\ cb' = 0 /\ snap' = NoSnap
  /\ activeId' = MoveResult(id)[1]
  /\ moves' = MoveResult(id)[2]
  /\ UNCHANGED <<items, privRendered, renderedItems, raf, cbs, Flags, regs,
                 observing, cache>>
  /\ UNCHANGED tooltipVars

(***************************************************************************)
(* useCompositeItem: the keydown handler of the focused item, which is the *)
(* active item (its focus handler sets activeId); preventScrollOnKeyDown   *)
(* and moveOnKeyPress have their defaults.                                 *)
(***************************************************************************)
ArrowKeys == {"ArrowUp", "ArrowRight", "ArrowDown", "ArrowLeft"}
Keys == ArrowKeys \cup {"Home", "End"}
\* keyMap has no action for the key
Unhandled == "unhandled"

\* focusShift is left at its default
InitKeys == InitNav

\* variant: the arrow keys are not gated
KeyGate_Ungated(isGrid, axis) == TRUE

\* (isGrid || isVertical) && store.up, and so on
KeyGate(isGrid, axis) == isGrid \/ axis

\* what action() returns for the key pressed on item id
KeyAction(key, ctrlKey, id) ==
  LET item == IF FindIndex(items, id) = 0 THEN NoItem
              ELSE items[FindIndex(items, id)]
      isGrid == Truthy(item.rowId)
      isVertical == orientation # "horizontal"
      isHorizontal == orientation # "vertical"
  IN CASE key = "ArrowUp" ->
            IF KeyGate(isGrid, isVertical) THEN up(NoSkip, activeId)
            ELSE Unhandled
       [] key = "ArrowRight" ->
            IF KeyGate(isGrid, isHorizontal) THEN next(NoSkip, activeId)
            ELSE Unhandled
       [] key = "ArrowDown" ->
            IF KeyGate(isGrid, isVertical) THEN down(NoSkip, activeId)
            ELSE Unhandled
       [] key = "ArrowLeft" ->
            IF KeyGate(isGrid, isHorizontal) THEN previous(NoSkip, activeId)
            ELSE Unhandled
       [] key = "Home" ->
            IF ~isGrid \/ ctrlKey THEN first ELSE previous(-1, activeId)
       [] key = "End" ->
            IF ~isGrid \/ ctrlKey THEN last ELSE next(-1, activeId)

\* onKeyDown on the active item: store.move(nextId) when the action gave an
\* id or null
KeyDown(key, ctrlKey) ==
  /\ op = "init" /\ activeId \in IdsOf(items)
  /\ ctrlKey => key \in {"Home", "End"}
  /\ LET nextId == KeyAction(key, ctrlKey, activeId)
     IN /\ op' = key /\ arg' = activeId /\ skipArg' = NoSkip
        /\ result' = nextId
        /\ activeId' = IF nextId = Unhandled THEN activeId
                       ELSE MoveResult(nextId)[1]
        /\ moves' = IF nextId = Unhandled THEN moves
                    ELSE MoveResult(nextId)[2]
  /\ UNCHANGED <<cb, snap>>
  /\ UNCHANGED <<items, privRendered, renderedItems, raf, cbs, Flags, regs,
                 observing, cache>>
  /\ UNCHANGED tooltipVars

NextKeys == \E key \in Keys, ctrlKey \in BOOLEAN : KeyDown(key, ctrlKey)

SpecKeys == InitKeys /\ [][NextKeys]_vars

(***************************************************************************)
(* onKeyDown with every key and with the preventScrollOnKeyDown and        *)
(* moveOnKeyPress props evaluating to either value.                        *)
(***************************************************************************)
PageKeys == {"PageUp", "PageDown"}
\* a key keyMap has no entry for
OtherKeys == {"Enter"}
AllKeys == Keys \cup PageKeys \cup OtherKeys

\* findNextPageItemId: undefined without a scrolling element; otherwise the
\* loop ends on next(i) or on the id before it, for an i below
\* renderedItems.length that the offsets of the elements decide
PageCandidates(key) ==
  {Undefined} \cup
    {IF key = "PageUp" THEN up(i, activeId) ELSE down(i, activeId) :
       i \in 0..(Len(renderedItems) - 1)}

\* moveOnKeyPressProp(event) as recorded with the call
MoveOnKeyPress(b) == IF b THEN "moveOnKeyPress" ELSE "noMoveOnKeyPress"

\* variant: moveOnKeyPress is not consulted
Commits_IgnoresMoveOnKeyPress(nextId, preventScroll, moveOnKeyPress) ==
  nextId # Unhandled /\ (preventScroll \/ nextId # Undefined)

\* store.move(nextId) is reached
Commits(nextId, preventScroll, moveOnKeyPress) ==
  /\ nextId # Unhandled
  /\ preventScroll \/ nextId # Undefined
  /\ moveOnKeyPress

\* onKeyDown on the active item with the candidate nextId
KeyPressWith(key, nextId, preventScroll, moveOnKeyPress) ==
  /\ op' = key /\ arg' = activeId /\ skipArg' = NoSkip
  /\ result' = nextId /\ cb' = 0
  /\ snap' = [NoSnap EXCEPT !.call = MoveOnKeyPress(moveOnKeyPress)]
  /\ activeId' = IF Commits(nextId, preventScroll, moveOnKeyPress)
                 THEN MoveResult(nextId)[1] ELSE activeId
  /\ moves' = IF Commits(nextId, preventScroll, moveOnKeyPress)
              THEN MoveResult(nextId)[2] ELSE moves
  /\ UNCHANGED <<items, privRendered, renderedItems, raf, cbs, Flags, regs,
                 observing, cache>>
  /\ UNCHANGED tooltipVars

KeyPress(key, ctrlKey, preventScroll, moveOnKeyPress) ==
  /\ op = "init" /\ activeId \in IdsOf(items)
  /\ ctrlKey => key \in {"Home", "End"}
  /\ \/ /\ key \in Keys
        /\ KeyPressWith(key, KeyAction(key, ctrlKey, activeId),
                        preventScroll, moveOnKeyPress)
     \/ /\ key \in PageKeys
        /\ \E nextId \in PageCandidates(key) :
             KeyPressWith(key, nextId, preventScroll, moveOnKeyPress)
     \/ /\ key \in OtherKeys
        /\ KeyPressWith(key, Unhandled, preventScroll, moveOnKeyPress)

NextKeyPress ==
  \E key \in AllKeys, ctrlKey, preventScroll, moveOnKeyPress \in BOOLEAN :
    KeyPress(key, ctrlKey, preventScroll, moveOnKeyPress)

\* the flags enter the handler through the candidate only: the stores are
\* those read left to right, without an axis-restricted loop
InitKeyPress == InitKeys /\ ~rtl /\ focusLoop \in {"false", "true"}

SpecKeyPress == InitKeyPress /\ [][NextKeyPress]_vars

\* most move(next()) steps of a run
MaxSteps == 4

\* store.move(store.next()): the candidate is computed and committed
MoveNext ==
  /\ moves < MaxSteps
  /\ LET nextId == next(NoSkip, activeId)
     IN /\ op' = "moveNext" /\ arg' = activeId /\ skipArg' = NoSkip
        /\ result' = nextId
        /\ activeId' = MoveResult(nextId)[1]
        /\ moves' = MoveResult(nextId)[2]
  /\ UNCHANGED <<cb, snap>>
  /\ UNCHANGED <<items, privRendered, renderedItems, raf, cbs, Flags, regs,
                 observing, cache>>
  /\ UNCHANGED tooltipVars

\* the stores of one-dimensional composites whose base element is not a
\* stop: without rowId focusWrap is never read to any effect (canWrap needs
\* isGrid)
InitLoop == /\ InitNav /\ renderedItems \in OneDimLists
            /\ focusWrap = "false" /\ ~includesBaseElement

NextLoop == MoveNext

\* the calls are repeated: each one is made
SpecLoop == InitLoop /\ [][NextLoop]_vars /\ WF_vars(MoveNext)

\* the composite store: items rendered and unmounted, frames, activeId set
Next ==
  \/ \E item \in CompositeItems : RenderItem(item)
  \/ \E k \in 1..MaxCbs : Unregister(k)
  \/ Frame
  \/ Intersect
  \/ \E id \in MoveIds : SetActiveId(id)
  \/ \E id \in ItemIds : Focus(id)
  \/ \E id \in MoveIds : Move(id)

Spec == Init /\ [][Next]_vars

\* the items registered to observe the merge: the optional field is left
\* out or has one of two values
MergeItems ==
  {[Item(id, NoRow, FALSE, ElementOf(id)) EXCEPT !.children = c] :
     id \in ItemIds, c \in {NoChildren, "x", "y"}}

\* registration alone
NextMerge ==
  \/ \E item \in MergeItems : RegisterItem(item)
  \/ \E k \in 1..MaxCbs : Unregister(k)

SpecMerge == Init /\ [][NextMerge]_vars

\* the arrays a caller passes to setItems
ItemLists ==
  {<<>>} \cup {<<x>> : x \in {z \in CollectionItems : z.id = "A"}}
    \cup {<<x, y>> : x \in {z \in CollectionItems : z.id = "B"},
                     y \in {z \in CollectionItems :
                              z.id = "A" /\ z.children = NoChildren}}

\* setItems(value) with a new array; it counts among the calls of the run
SetItems(value) ==
  /\ regs < MaxRegs /\ regs' = regs + 1
  /\ op' = "setItems" /\ arg' = Undefined /\ skipArg' = NoSkip
  /\ result' = Undefined /\ cb' = 0 /\ snap' = NoSnap
  /\ items' = value
  /\ cache' = NewItemsArray(cache)
  /\ UNCHANGED <<privRendered, renderedItems, activeId, moves, raf, cbs,
                 Flags, observing>>
  /\ UNCHANGED tooltipVars

\* setItems(value) with the array the cache refers to, which the caller got
\* from the state earlier
SetItemsBack ==
  /\ cache.id # Null /\ ~cache.fresh
  /\ op' = "setItems" /\ arg' = Undefined /\ skipArg' = NoSkip
  /\ result' = Undefined /\ cb' = 0 /\ snap' = NoSnap
  /\ items' = cache.list
  /\ cache' = [cache EXCEPT !.fresh = TRUE]
  /\ UNCHANGED <<privRendered, renderedItems, activeId, moves, raf, cbs,
                 Flags, regs, observing>>
  /\ UNCHANGED tooltipVars

\* the ids item() is called with: of items, of no item, and falsy ones
LookupIds == ItemIds \cup {StaleId, "", Null}

\* variant: the cache is keyed on the id alone
CacheHit_IdOnly(id) == cache.id = id

\* cache.id === id && cache.items === items
CacheHit(id) == cache.id = id /\ cache.fresh

\* item(id); the entry it returns is cache.item, `result` is the id of the
\* entry, null, or TypeError when find dereferences a hole
ItemCall(id) ==
  /\ op' = "item" /\ arg' = id /\ skipArg' = NoSkip
  /\ cb' = 0 /\ snap' = NoSnap
  /\ IF id \in {"", Null, Undefined}
     THEN result' = Null /\ cache' = cache
     ELSE IF CacheHit(id)
     THEN /\ result' = (IF cache.item = NoItem THEN Null ELSE cache.item.id)
          /\ cache' = cache
     ELSE IF FindThrows(items, id)
     THEN result' = "TypeError" /\ cache' = cache
     ELSE LET index == FindIndex(items, id)
              item == IF index = 0 THEN NoItem ELSE items[index]
          IN /\ cache' = [id |-> id, list |-> items, item |-> item,
                          fresh |-> TRUE]
             /\ result' = (IF index = 0 THEN Null ELSE id)
  /\ UNCHANGED <<items, privRendered, renderedItems, activeId, moves, raf,
                 cbs, Flags, regs, observing>>
  /\ UNCHANGED tooltipVars

\* calls that write items in a run with lookups
MaxWrites == 2

\* the items list and its lookup
NextLookup ==
  \/ \E item \in CollectionItems : regs < MaxWrites /\ RegisterItem(item)
  \/ \E item \in CollectionItems : regs < MaxWrites /\ RenderItem(item)
  \/ \E k \in 1..MaxCbs : Unregister(k)
  \/ \E value \in ItemLists : regs < MaxWrites /\ SetItems(value)
  \/ SetItemsBack
  \/ \E id \in LookupIds : ItemCall(id)

SpecLookup == Init /\ [][NextLookup]_vars

\* rendering and reconciliation of a store that stays set up and whose
\* observer is silent; a requested animation frame is delivered
NextReconcile ==
  \/ \E item \in CollectionItems : RenderItem(item)
  \/ \E k \in 1..MaxCbs : Unregister(k)
  \/ Frame

SpecReconcile == Init /\ [][NextReconcile]_vars /\ WF_vars(Frame)

\* the collection part of the store: registration and reconciliation
NextCollection ==
  \/ \E item \in CollectionItems : RegisterItem(item)
  \/ \E item \in CollectionItems : RenderItem(item)
  \/ \E k \in 1..MaxCbs : Unregister(k)
  \/ Frame
  \/ Intersect
  \/ SetupCleanup

SpecCollection == Init /\ [][NextCollection]_vars

(***************************************************************************)
(* createTooltipStore.  Tooltip stores are numbered 1..MaxTooltips; the    *)
(* `ref` symbol of store t is t, and activeRef = 0 stands for null.        *)
(***************************************************************************)
MaxTooltips == 2
Tooltips == 1..MaxTooltips
\* values of the timeout option (0 is the default)
Timeouts == {0, 500}

\* the stores after construction and setup, all closed
InitTooltips ==
  /\ activeRef = 0
  /\ dOpen = [t \in Tooltips |-> FALSE]
  /\ tOpen = [t \in Tooltips |-> FALSE]
  /\ timer = [t \in Tooltips |-> "none"]
  /\ timeout \in [Tooltips -> Timeouts]
  /\ live = [t \in Tooltips |-> TRUE]

\* a composite store that is not used
IdleStore ==
  /\ items = <<>> /\ privRendered = <<>> /\ renderedItems = <<>>
  /\ activeId = Undefined /\ includesBaseElement = FALSE /\ moves = 0
  /\ orientation = "both" /\ rtl = FALSE
  /\ focusLoop = "false" /\ focusWrap = "false" /\ focusShift = FALSE
  /\ raf = 0 /\ observing = FALSE /\ cbs = <<>> /\ regs = 0
  /\ cache = NoCache

InitTooltip == InitTooltips /\ IdleStore /\ NoCall

\* store.setState(key, value) notifies the listeners of key when the value
\* changes
Notifies(prev, value) == prev # value

\* variant: the listener opens the new owner and closes nobody
OpenAfterActiveRef_NeverCloses(r, subscribed, open) ==
  [u \in Tooltips |-> IF subscribed[u] /\ r = u THEN TRUE ELSE open[u]]

\* tooltips.setState("activeRef", r): the tooltips.sync listener of every
\* subscribed store sets its open state
OpenAfterActiveRef(r, subscribed, open) ==
  IF Notifies(activeRef, r)
  THEN [u \in Tooltips |-> IF subscribed[u] THEN r = u ELSE open[u]]
  ELSE open

\* variant: the token of another tooltip does not cancel the delay
ShowsImmediately_OwnTimeoutOnly(t) == timeout[t] = 0

\* !timeout || activeRef
ShowsImmediately(t) == timeout[t] = 0 \/ activeRef # 0

\* a step of store t; result is the timer of t that was pending before it
TooltipCall(name, t) ==
  /\ op' = name /\ cb' = t /\ result' = timer[t]
  /\ UNCHANGED <<arg, skipArg, snap>>
  /\ UNCHANGED compositeVars

\* variant: the cleanup does not clear the pending timer, which stays
PendingAfter_NoCleanup(t, new) == IF timer[t] # "none" THEN timer[t] ELSE new

\* the timer of t after the cleanup of the listener's previous run (the
\* function afterTimeout returned: clearTimeout) and the scheduling of new
PendingAfter(t, new) == new

\* show(): disclosure.open becomes true; the disclosure.sync listener runs
\* (after the cleanup of its previous run, which clears its timer)
Show(t) ==
  /\ live[t] /\ ~dOpen[t]
  /\ dOpen' = [dOpen EXCEPT ![t] = TRUE]
  /\ IF ShowsImmediately(t)
     THEN /\ activeRef' = t
          /\ tOpen' = [OpenAfterActiveRef(t, live, tOpen) EXCEPT ![t] = TRUE]
          /\ timer' = [timer EXCEPT ![t] = PendingAfter(t, "none")]
     ELSE /\ activeRef' = 0
          /\ tOpen' = OpenAfterActiveRef(0, live, tOpen)
          /\ timer' = [timer EXCEPT ![t] = PendingAfter(t, "show")]
  /\ UNCHANGED <<timeout, live>>
  /\ TooltipCall("show", t)

\* hide(): disclosure.open becomes false
Hide(t) ==
  /\ live[t] /\ dOpen[t]
  /\ dOpen' = [dOpen EXCEPT ![t] = FALSE]
  /\ tOpen' = [tOpen EXCEPT ![t] = FALSE]
  /\ timer' = [timer EXCEPT ![t] = PendingAfter(t, "release")]
  /\ UNCHANGED <<activeRef, timeout, live>>
  /\ TooltipCall("hide", t)

\* variant: the release clears the token whoever holds it
ReleasedRef_Unconditional(t) == 0

\* the updater (activeRef) => activeRef === ref ? null : activeRef
ReleasedRef(t) == IF activeRef = t THEN 0 ELSE activeRef

\* the callback of afterTimeout runs
TimerFires(t) ==
  /\ timer[t] # "none"
  /\ activeRef' = IF timer[t] = "show" THEN t ELSE ReleasedRef(t)
  /\ tOpen' = OpenAfterActiveRef(activeRef', live, tOpen)
  /\ timer' = [timer EXCEPT ![t] = "none"]
  /\ UNCHANGED <<dOpen, timeout, live>>
  /\ TooltipCall("timer", t)

\* teardown: the cleanups of the three setups, in order (the timer is
\* cleared, the tooltips.sync listener removed, the token released if owned)
Teardown(t) ==
  /\ live[t]
  /\ live' = [live EXCEPT ![t] = FALSE]
  /\ timer' = [timer EXCEPT ![t] = PendingAfter(t, "none")]
  /\ activeRef' = ReleasedRef(t)
  /\ tOpen' = OpenAfterActiveRef(activeRef', live', tOpen)
  /\ UNCHANGED <<dOpen, timeout>>
  /\ TooltipCall("teardown", t)

NextTooltip ==
  \/ \E t \in Tooltips : Show(t)
  \/ \E t \in Tooltips : Hide(t)
  \/ \E t \in Tooltips : TimerFires(t)
  \/ \E t \in Tooltips : Teardown(t)

SpecTooltip == InitTooltip /\ [][NextTooltip]_vars

(***************************************************************************)
(* Vocabulary of the properties: positions in the rendered list            *)
(***************************************************************************)
EnabledIdx(its) == {i \in 1..Len(its) : ~its[i].disabled}
MinOf(S) == CHOOSE x \in S : \A y \in S : x <= y
MaxOf(S) == CHOOSE x \in S : \A y \in S : y <= x
FirstEnabledId(its) ==
  IF EnabledIdx(its) = {} THEN Undefined ELSE its[MinOf(EnabledIdx(its))].id
LastEnabledId(its) ==
  IF EnabledIdx(its) = {} THEN Undefined ELSE its[MaxOf(EnabledIdx(its))].id
\* indexes of the items in the row of the item at index p
RowIdx(its, p) == {i \in 1..Len(its) : its[i].rowId = its[p].rowId}
ActiveIdx == FindIndex(renderedItems, activeId)
IsOneDim == \A i \in 1..Len(renderedItems) : renderedItems[i].rowId = NoRow
IsGridList == /\ renderedItems # <<>>
              /\ \A i \in 1..Len(renderedItems) : renderedItems[i].rowId # NoRow
\* the loop / wrap setting applies to a call made with orientation o
Applies(setting, o) == Truthy(setting) /\ setting # getOppositeOrientation(o)
ActiveIsLastEnabled ==
  activeId \notin {Null, Undefined} /\ activeId = LastEnabledId(renderedItems)

(***************************************************************************)
(* C2 (as stated): next() from the last enabled item returns undefined     *)
(* when focusLoop is false and the first enabled item's id when focusLoop  *)
(* applies to the orientation, for all compositions.  Read in the claim's  *)
(* favour: rtl not in effect and more than one enabled item.               *)
(***************************************************************************)
C2_AsStated ==
  (/\ op = "next" /\ skipArg = NoSkip /\ ActiveIsLastEnabled
   /\ ~(rtl /\ orientation # "vertical")
   /\ Cardinality(EnabledIdx(renderedItems)) > 1) =>
     /\ (focusLoop = "false" => result = Undefined)
     /\ (Applies(focusLoop, orientation) =>
           result = FirstEnabledId(renderedItems))

(***************************************************************************)
(* C2 (amended): with rtl not in effect, next() from the last enabled item *)
(* returns undefined when focusLoop is false or names the axis opposite to *)
(* the orientation.  When focusLoop applies it returns, in a               *)
(* one-dimensional composite, null if includesBaseElement is set and the   *)
(* first enabled item otherwise; in a grid the first enabled item of the   *)
(* active row, or of the whole grid when focusWrap applies too; and        *)
(* undefined when that item is the active item itself.                     *)
(***************************************************************************)
C2_NextFromLast ==
  (/\ op = "next" /\ skipArg = NoSkip /\ ActiveIsLastEnabled
   /\ ~(rtl /\ orientation # "vertical")) =>
     LET rowIts == getItemsInRow(renderedItems, renderedItems[ActiveIdx].rowId)
         target == IF IsOneDim THEN FirstEnabledId(renderedItems)
                   ELSE IF Applies(focusWrap, orientation)
                        THEN FirstEnabledId(renderedItems)
                        ELSE FirstEnabledId(rowIts)
     IN /\ (~Applies(focusLoop, orientation) => result = Undefined)
        /\ (Applies(focusLoop, orientation) =>
              result = IF IsOneDim /\ includesBaseElement THEN Null
                       ELSE IF target = activeId THEN Undefined
                       ELSE target)

\* [A,B,C] in one row, activeId = C, focusLoop true: next() is "A"
C2_Witness ==
  /\ op = "next" /\ skipArg = NoSkip /\ Len(renderedItems) = 3 /\ IsOneDim
  /\ EnabledIdx(renderedItems) = {1, 2, 3}
  /\ activeId = "C" /\ focusLoop = "true" /\ ~includesBaseElement /\ ~rtl
  /\ result = "A"

(***************************************************************************)
(* C5: first() returns the id of the first enabled item of renderedItems   *)
(* in render order and last() the id of the last enabled one, whatever     *)
(* activeId is.                                                            *)
(***************************************************************************)
C5_FirstLast ==
  /\ (op = "first" => result = FirstEnabledId(renderedItems))
  /\ (op = "last" => result = LastEnabledId(renderedItems))

\* [A(disabled),B,C]: first() is "B" while another item is active
C5_Witness ==
  /\ op = "first" /\ Len(renderedItems) = 3
  /\ EnabledIdx(renderedItems) = {2, 3}
  /\ activeId = "C" /\ result = "B"

(***************************************************************************)
(* C6 (as stated): with rtl set on a horizontally navigated composite,     *)
(* first() returns the enabled item that last() returns with rtl unset.    *)
(***************************************************************************)
C6_AsStated ==
  (op = "first" /\ rtl /\ orientation # "vertical") =>
     result = LastEnabledId(renderedItems)

(***************************************************************************)
(* C6 (amended): first() and last() do not mirror the order under rtl:     *)
(* with rtl set, for every orientation, first() is still the first enabled *)
(* item in render order and last() the last one.                           *)
(***************************************************************************)
C6_RtlIgnored ==
  rtl => /\ (op = "first" => result = FirstEnabledId(renderedItems))
         /\ (op = "last" => result = LastEnabledId(renderedItems))

C6_Witness ==
  /\ op = "first" /\ rtl /\ orientation = "horizontal"
  /\ Len(renderedItems) = 3 /\ EnabledIdx(renderedItems) = {1, 2, 3}
  /\ result = "A"

(***************************************************************************)
(* Vocabulary of the grid properties.  Rows are contiguous in the rendered *)
(* list; a cell is addressed by (row, column), both 1-based.               *)
(***************************************************************************)
Rows == groupItemsByRows(renderedItems)
\* row and column of the active item
ActiveRow ==
  CHOOSE r \in 1..Len(Rows) : \E c \in 1..Len(Rows[r]) : Rows[r][c].id = activeId
ActiveCol ==
  CHOOSE c \in 1..Len(Rows[ActiveRow]) : Rows[ActiveRow][c].id = activeId
ActiveInGrid == IsGridList /\ activeId \in IdsOf(renderedItems)
HasCell(r, c) == r \in 1..Len(Rows) /\ c \in 1..Len(Rows[r])
EnabledCell(r, c) == HasCell(r, c) /\ ~Rows[r][c].disabled
EqualRows == \A r \in 1..Len(Rows) : Len(Rows[r]) = Len(Rows[1])
UnequalRows == ~EqualRows
PlainGrid ==
  /\ ActiveInGrid /\ EqualRows /\ EnabledIdx(renderedItems) = 1..Len(renderedItems)
  /\ focusLoop = "false" /\ focusWrap = "false" /\ ~includesBaseElement
CellId(r, c) == IF HasCell(r, c) THEN Rows[r][c].id ELSE Undefined

(***************************************************************************)
(* C8: in a grid whose rows have equal length and no disabled item         *)
(* (focusLoop, focusWrap and includesBaseElement off), down() returns the  *)
(* item in the same column of the next row and up() the item in the same   *)
(* column of the previous row (undefined past the edge), so when down()    *)
(* from x returns y, up() from y returns x.                                *)
(***************************************************************************)
C8_DownUp ==
  (PlainGrid /\ skipArg = NoSkip) =>
     /\ (op = "down" =>
           /\ result = CellId(ActiveRow + 1, ActiveCol)
           /\ (result # Undefined => up(NoSkip, result) = activeId))
     /\ (op = "up" =>
           /\ result = CellId(ActiveRow - 1, ActiveCol)
           /\ (result # Undefined => down(NoSkip, result) = activeId))

\* 2x2 grid [[A,B],[C,D]], activeId = B: down() is D (and up() from D is B)
C8_Witness ==
  /\ PlainGrid /\ op = "down" /\ skipArg = NoSkip
  /\ Len(Rows) = 2 /\ Len(Rows[1]) = 2
  /\ activeId = "B" /\ result = "D" /\ up(NoSkip, "D") = "B"

(***************************************************************************)
(* C9 (as stated): with rows of unequal length, down(0) from the first     *)
(* item of the shortest row lands on a disabled placeholder, i.e. moves    *)
(* nowhere, when focusShift is false.                                      *)
(***************************************************************************)
ShortestRow(r) == \A q \in 1..Len(Rows) : Len(Rows[r]) <= Len(Rows[q])

LaterEnabledRows(r, c) == {q \in (r + 1)..Len(Rows) : EnabledCell(q, c)}

C3_MoveUndefined ==
  [][(op' = "move" /\ arg' = Undefined) => UNCHANGED compositeVars]_vars

C3_Witness ==
  /\ op = "move" /\ arg = Undefined /\ activeId \in ItemIds /\ moves > 0
  /\ renderedItems # <<>>

(***************************************************************************)
(* C4: move(id) with id a string or null sets activeId to id and adds      *)
(* exactly 1 to moves, also when id is the current activeId, when it is    *)
(* null and when it is the id of no rendered item.                         *)
(***************************************************************************)
C4_MoveCommits ==
  [][(op' = "move" /\ arg' # Undefined) =>
       (activeId' = arg' /\ moves' = moves + 1)]_vars

\* a move to an id that names no rendered item, while items are rendered
C4_Witness ==
  /\ op = "move" /\ arg = StaleId /\ activeId = StaleId /\ moves = 1
  /\ renderedItems # <<>> /\ StaleId \notin IdsOf(renderedItems)

(***************************************************************************)
(* C7: registerItem(item) followed immediately by its unregister callback  *)
(* restores the items list exactly (order and previous entry of the id),   *)
(* for a new id and for an id already present.                             *)
(***************************************************************************)
C7_RoundTrip ==
  (op = "unregister" /\ snap.of = cb /\ snap.call = "registerItem") =>
     items = snap.items

\* the id was present: its previous entry, changed by the merge, is back
C7_Witness ==
  /\ op = "unregister" /\ snap.of = cb /\ snap.call = "registerItem"
  /\ Len(snap.items) = 2 /\ snap.items[1].id = arg
  /\ snap.items[1].children = "x"
  /\ items = snap.items

(***************************************************************************)
(* C10: while a tooltip holds the shared token (activeRef is set: a        *)
(* tooltip is open or closed less than its timeout ago), a tooltip whose   *)
(* disclosure opens is open in the same step, whatever its own timeout,    *)
(* it takes the token, and every other live tooltip is closed.             *)
(***************************************************************************)
C10_OpensAtOnce ==
  [][\A t \in Tooltips :
       (live[t] /\ ~dOpen[t] /\ dOpen'[t] /\ activeRef # 0) =>
          /\ tOpen'[t] /\ activeRef' = t /\ timer'[t] = "none"
          /\ \A u \in Tooltips \ {t} : live[u] => ~tOpen'[u]]_vars

\* tooltip 1 (timeout 500) was open, tooltip 2 (timeout 500) has just been
\* shown: it is open and tooltip 1 is closed, its disclosure still open
C10_Witness ==
  /\ op = "show" /\ timeout[1] = 500 /\ timeout[2] = 500
  /\ live[1] /\ dOpen[1] /\ ~tOpen[1] /\ timer[1] = "none"
  /\ live[2] /\ dOpen[2] /\ tOpen[2] /\ activeRef = 2

(***************************************************************************)
(* C11: a tooltip store clears the shared token, in its delayed release    *)
(* and in its teardown, only if the token is its own ref: a release by     *)
(* store t while another store holds the token leaves the token alone, and *)
(* the token of a store is only ever cleared by that store.                *)
(***************************************************************************)
ReleaseStep(t) ==
  \/ op' = "timer" /\ timer[t] = "release" /\ timer'[t] = "none"
  \/ live[t] /\ ~live'[t]

C11_OwnedRelease ==
  [][/\ \A t \in Tooltips :
          ReleaseStep(t) =>
            activeRef' = IF activeRef = t THEN 0 ELSE activeRef
     /\ \A u \in Tooltips :
          (activeRef = u /\ activeRef' = 0) => ReleaseStep(u)]_vars

\* tooltip 1 was hidden, tooltip 2 (no timeout, so it never has a show
\* timer) took the token, and the release timer of tooltip 1 has fired
C11_Witness ==
  /\ op = "timer" /\ activeRef = 2 /\ timeout[2] = 0
  /\ live[2] /\ dOpen[2] /\ tOpen[2] /\ timer[2] = "none"
  /\ live[1] /\ ~dOpen[1] /\ ~tOpen[1] /\ timer[1] = "none"

(***************************************************************************)
(* C12: at most one live tooltip store has open = true: an open tooltip    *)
(* holds the shared token, and while a tooltip holds the token every other *)
(* live tooltip has open = false, in every state reached by show, hide,    *)
(* timer (and teardown) steps.                                             *)
(***************************************************************************)
C12_SingleOpen ==
  /\ \A t \in Tooltips : (live[t] /\ tOpen[t]) => activeRef = t
  /\ Cardinality({t \in Tooltips : live[t] /\ tOpen[t]}) <= 1

\* tooltip 1 (no timeout) was open when the show timer of tooltip 2 fired:
\* tooltip 2 holds the token and is open, tooltip 1 is closed
C12_Witness ==
  /\ op = "timer" /\ activeRef = 2 /\ timeout[2] = 500 /\ timeout[1] = 0
  /\ live[2] /\ dOpen[2] /\ tOpen[2]
  /\ live[1] /\ dOpen[1] /\ ~tOpen[1] /\ timer[1] = "none"

(***************************************************************************)
(* C13: the show delay is cancellable.  A show timer is pending only while *)
(* the disclosure of its live store is open; when the disclosure closes or *)
(* the store is torn down while the show timer is pending, the timer is    *)
(* cancelled, and a store whose disclosure is closed (or which is torn     *)
(* down) never becomes open and never acquires the token.                  *)
(***************************************************************************)
C13_DelayCancelled ==
  [][\A t \in Tooltips :
       /\ (timer'[t] = "show" => (live'[t] /\ dOpen'[t] /\ timeout[t] > 0))
       /\ (~dOpen'[t] \/ ~live'[t]) =>
            /\ activeRef' = t => activeRef = t
            /\ tOpen'[t] => tOpen[t]]_vars

\* tooltip 1 (timeout 500) was hidden while its show timer was pending:
\* the timer is gone, the tooltip is closed and the token is free
C13_Witness ==
  /\ op = "hide" /\ cb = 1 /\ result = "show" /\ timeout[1] = 500
  /\ live[1] /\ ~dOpen[1] /\ ~tOpen[1] /\ timer[1] = "release"
  /\ activeRef = 0

(***************************************************************************)
(* C14: next, previous, up, down, first and last are pure: a call, with or *)
(* without skip, leaves activeId, moves, items, renderedItems and every    *)
(* other field of the store unchanged.                                     *)
(***************************************************************************)
Primitives == {"first", "last", "next", "previous", "down", "up"}

DeadEnd == EnabledIdx(renderedItems) = {}

C15_AsStated == (op \in Primitives /\ DeadEnd) => result = Undefined

(***************************************************************************)
(* C15 (amended): in a dead end the primitives never return an id.  first  *)
(* and last return undefined; next, previous, up and down return undefined *)
(* when renderedItems is empty, when activeId names no rendered item or    *)
(* when includesBaseElement is false, and otherwise undefined or null (the *)
(* container stop).                                                        *)
(***************************************************************************)
C15_DeadEnds ==
  (op \in Primitives /\ DeadEnd) =>
     /\ result \in {Undefined, Null}
     /\ (\/ op \in {"first", "last"}
         \/ activeId \notin IdsOf(renderedItems)
         \/ ~includesBaseElement) => result = Undefined

\* [A(disabled),B(disabled)], activeId = B, includesBaseElement unset:
\* previous() is undefined
C15_Witness ==
  /\ op = "previous" /\ skipArg = NoSkip /\ DeadEnd /\ IsOneDim
  /\ Len(renderedItems) = 2 /\ activeId = "B" /\ ~includesBaseElement
  /\ focusLoop = "true" /\ result = Undefined

(***************************************************************************)
(* C16: rtl never affects vertical traversal: up() and down(), with any    *)
(* skip, return in every state the id they return in the state that        *)
(* differs from it only in rtl.                                            *)
(***************************************************************************)
C16_RtlVertical ==
  /\ op = "down" => result = downWith(~rtl, skipArg, activeId)
  /\ op = "up" => result = upWith(~rtl, skipArg, activeId)

\* grid [[A,B],[C,D]] with rtl set, activeId = A: down() is C, as it is
\* with rtl unset
C16_Witness ==
  /\ op = "down" /\ rtl /\ skipArg = NoSkip /\ PlainGrid
  /\ Len(Rows) = 2 /\ Len(Rows[1]) = 2
  /\ activeId = "A" /\ result = "C" /\ downWith(FALSE, NoSkip, "A") = "C"

(***************************************************************************)
(* C17: in a grid with focusWrap enabled, next() from the last enabled     *)
(* item of a row returns the first enabled item of the following rows,     *)
(* whether focusLoop is on or off; when no enabled item follows (the last  *)
(* enabled item of the last row) and focusLoop does not apply, it returns  *)
(* undefined.  Order is the order of navigation: render order, mirrored    *)
(* when rtl is in effect.                                                  *)
(***************************************************************************)
NavOrder ==
  IF IsRTL(rtl, orientation) THEN reverseArray(renderedItems) ELSE renderedItems
\* enabled items that follow the active item in the order of navigation
EnabledAfterActive ==
  {j \in EnabledIdx(NavOrder) : j > FindIndex(NavOrder, activeId)}
\* the active item is enabled and no enabled item follows it in its row
ActiveIsLastEnabledOfRow ==
  /\ FindIndex(NavOrder, activeId) \in EnabledIdx(NavOrder)
  /\ \A j \in EnabledAfterActive :
        NavOrder[j].rowId # NavOrder[FindIndex(NavOrder, activeId)].rowId

NavEnabledIds ==
  LET en == SelectSeq(NavOrder, LAMBDA item : ~item.disabled)
  IN [k \in 1..Len(en) |-> en[k].id]
ActiveIsLastEnabledInNavOrder ==
  NavEnabledIds # <<>> /\ activeId = NavEnabledIds[Len(NavEnabledIds)]
\* the ids k successive next() calls return, each moved to, from aId
RECURSIVE NextPath(_, _)
NextPath(aId, k) ==
  IF k = 0 THEN <<>>
  ELSE <<next(NoSkip, aId)>> \o NextPath(next(NoSkip, aId), k - 1)

C18_AsStated ==
  (/\ op = "next" /\ skipArg = NoSkip /\ IsOneDim
   /\ Applies(focusLoop, orientation) /\ ~includesBaseElement
   /\ ActiveIsLastEnabledInNavOrder) => result = NavEnabledIds[1]

(***************************************************************************)
(* C18 (amended): in a one-dimensional composite with an applicable        *)
(* focusLoop, next() while activeId is null returns the first enabled      *)
(* item; with includesBaseElement true next() from the last enabled item   *)
(* returns null, so successive next() calls from null visit every enabled  *)
(* item once and then the container; with includesBaseElement false next() *)
(* from the last enabled item returns the first enabled item, and          *)
(* undefined when the active item is the only enabled one.                 *)
(***************************************************************************)
C18_ContainerStop ==
  (/\ op = "next" /\ skipArg = NoSkip /\ IsOneDim
   /\ Applies(focusLoop, orientation) /\ NavEnabledIds # <<>>) =>
     /\ activeId = Null => result = NavEnabledIds[1]
     /\ (activeId = Null /\ includesBaseElement) =>
          NextPath(Null, Len(NavEnabledIds) + 1) = Append(NavEnabledIds, Null)
     /\ (ActiveIsLastEnabledInNavOrder /\ includesBaseElement) =>
          result = Null
     /\ (ActiveIsLastEnabledInNavOrder /\ ~includesBaseElement) =>
          result = IF Len(NavEnabledIds) = 1 THEN Undefined
                   ELSE NavEnabledIds[1]

\* [A,B,C], focusLoop and includesBaseElement set, activeId = C: next() is
\* null, and next() from null is A
C18_Witness ==
  /\ op = "next" /\ skipArg = NoSkip /\ IsOneDim /\ Len(renderedItems) = 3
  /\ EnabledIdx(renderedItems) = {1, 2, 3} /\ ~rtl
  /\ focusLoop = "true" /\ includesBaseElement
  /\ activeId = "C" /\ result = Null /\ next(NoSkip, Null) = "A"

Direction == IF op = "previous" THEN reverseArray(NavOrder) ELSE NavOrder
\* enabled items of the active row beyond the active item
Beyond ==
  LET i == FindIndex(Direction, activeId)
  IN {j \in EnabledIdx(Direction) :
        j > i /\ Direction[j].rowId = Direction[i].rowId}
\* the k-th smallest element of S
Kth(S, k) == CHOOSE j \in S : Cardinality({x \in S : x < j}) = k - 1

C20_Skip ==
  (/\ op \in {"next", "previous"} /\ skipArg >= 0
   /\ activeId \in IdsOf(renderedItems)) =>
     result = IF Beyond = {} THEN Undefined
              ELSE IF skipArg + 1 <= Cardinality(Beyond)
                   THEN Direction[Kth(Beyond, skipArg + 1)].id
                   ELSE Direction[MaxOf(Beyond)].id

\* [A,B,C], activeId = A, focusLoop set: next(2) is C (clamped, no wrap)
C20_Witness ==
  /\ op = "next" /\ skipArg = 2 /\ IsOneDim /\ Len(renderedItems) = 3
  /\ EnabledIdx(renderedItems) = {1, 2, 3} /\ ~rtl /\ focusLoop = "true"
  /\ activeId = "A" /\ result = "C"

(***************************************************************************)
(* C21: moves is a monotonic counter: in every step (move, setActiveId,    *)
(* the focus event of an item, renderItem, unregister callbacks, frames)   *)
(* moves does not decrease, and it changes only in move(id) with id        *)
(* different from undefined, by exactly 1.                                 *)
(***************************************************************************)
C21_MovesMonotonic ==
  [][/\ moves' >= moves
     /\ moves' # moves =>
          (op' = "move" /\ arg' # Undefined /\ moves' = moves + 1)]_vars

\* after a move, the focus event of another item sets activeId and leaves
\* moves as it is
C21_Witness ==
  /\ op = "focus" /\ arg = "B" /\ activeId = "B" /\ moves = 1

(***************************************************************************)
(* C22: renderItem(item) registers the item and adds or merges it into the *)
(* rendered list (the private list, which the next frame publishes as      *)
(* renderedItems); its callback undoes both: in items and in the rendered  *)
(* list the item is removed, or its previous entry is written back at its  *)
(* position, and invoked right after the call it restores both lists.      *)
(***************************************************************************)
\* the list after a callback with closure c: removed, or previous entry back
Undone(list, c) ==
  IF c.hasPrev THEN c.index <= Len(list) /\ list[c.index] = c.prevItem
  ELSE c.id \notin IdsOf(list)

C23_RenderedWithinItems ==
  \A i \in 1..Len(privRendered) :
     privRendered[i] # HOLE => privRendered[i].id \in IdsOf(items)

C24_WitnessCleanup ==
  /\ op = "renderItem" /\ ~observing /\ raf = 0
  /\ renderedItems # privRendered

(***************************************************************************)
(* C25: a reconciliation run on rendered items already in document order   *)
(* emits no update.  As stated: the run leaves the rendered list, private  *)
(* and public, and what listeners derive from it (activeId) as they were,  *)
(* and causes no further frame.                                            *)
(***************************************************************************)
\* no pair of items of the list is out of document order
InDocumentOrder(list) ==
  \A i, j \in 1..Len(list) :
     (i < j /\ list[i] # HOLE /\ list[j] # HOLE)
       => list[i].element <= list[j].element

C25_AsStated ==
  [][(op' = "frame" /\ InDocumentOrder(privRendered)) =>
       /\ privRendered' = privRendered /\ raf' = raf - 1
       /\ renderedItems' = renderedItems /\ activeId' = activeId]_vars

\* C25, amended: the run leaves the private list as it was and causes no
\* further frame; the public renderedItems is set to the private list, which
\* changes nothing when the private list was published already and
\* publishes the registrations made since the last frame otherwise.
C25_NoUpdate ==
  [][(op' = "frame" /\ InDocumentOrder(privRendered)) =>
       /\ privRendered' = privRendered /\ raf' = raf - 1
       /\ renderedItems' = privRendered
       /\ renderedItems = privRendered =>
            UNCHANGED <<items, privRendered, renderedItems, activeId, moves,
                        cbs, observing>>]_vars

\* a frame requested by the observer has run on a published list [A,B]
C25_Witness ==
  /\ op = "frame" /\ snap.call = "frame"
  /\ Len(snap.rendered) = 2 /\ InDocumentOrder(snap.rendered)
  /\ snap.published = snap.rendered
  /\ renderedItems = snap.published /\ raf = 0

(***************************************************************************)
(* C26: item(id) is equivalent to an uncached scan.  After any sequence of *)
(* registerItem, renderItem, unregister callbacks, setItems and item()     *)
(* calls, item(id) returns the first entry of the current items whose id   *)
(* is id, and null when id is falsy or no entry has it; it throws exactly  *)
(* when the scan would.                                                    *)
(***************************************************************************)
\* positions the scan visits before it returns: up to the first match
Scanned(id) ==
  {i \in 1..Len(items) : \A j \in 1..(i - 1) : items[j].id # id}

C26_CachedLookup ==
  [][op' = "item" =>
       IF arg' \in {"", Null, Undefined} THEN result' = Null
       ELSE IF \E i \in Scanned(arg') : items[i] = HOLE
       THEN result' = "TypeError"
       ELSE IF \E i \in Scanned(arg') : items[i].id = arg'
       THEN /\ result' = arg'
            /\ \E i \in Scanned(arg') :
                 items[i].id = arg' /\ cache'.item = items[i]
       ELSE result' = Null /\ cache'.item = NoItem]_vars

\* a lookup answered from the cache: the array looked up before was given
\* back to the store after another array had been looked up in between
C26_Witness ==
  /\ op = "item" /\ arg = "A" /\ result = "A"
  /\ cache.fresh /\ cache.list = items /\ cache.item.children = "x"
  /\ regs = MaxWrites /\ Len(items) = 2 /\ \A k \in 1..MaxCbs : ~cbs[k].used

(***************************************************************************)
(* C27: registerItem(item) with an id already present merges in place: the *)
(* length of items and every other entry stay, the entry at the position   *)
(* of the id has the fields of the new item and, for a field the new item  *)
(* lacks, the field of the previous entry; with a new id the item is       *)
(* appended at the end.                                                    *)
(***************************************************************************)
C27_MergeInPlace ==
  [][(op' = "registerItem" /\ result' # "TypeError") =>
       LET item == snap'.item
           present == {i \in 1..Len(items) :
                         items[i].id = item.id
                         /\ \A j \in 1..(i - 1) : items[j].id # item.id}
       IN IF present = {} THEN items' = Append(items, item)
          ELSE /\ Len(items') = Len(items)
               /\ \A i \in 1..Len(items) :
                    IF i \in present
                    THEN /\ items'[i].id = item.id
                         /\ items'[i].disabled = item.disabled
                         /\ items'[i].element = item.element
                         /\ items'[i].rowId = item.rowId
                         /\ items'[i].children =
                              (IF item.children # NoChildren
                               THEN item.children ELSE items[i].children)
                    ELSE items'[i] = items[i]]_vars

\* A, first of [A,B] with children "x", was registered again without the
\* field: the list is as it was
C27_Witness ==
  /\ op = "registerItem" /\ snap.call = "registerItem" /\ arg = "A"
  /\ Len(snap.items) = 2 /\ snap.items[1].id = "A" /\ snap.items[2].id = "B"
  /\ snap.items[1].children = "x" /\ snap.item.children = NoChildren
  /\ items = snap.items

(***************************************************************************)
(* C28: the keyboard layer gates movement by orientation.  On an item      *)
(* without a row, with orientation "horizontal" ArrowUp and ArrowDown, and *)
(* with orientation "vertical" ArrowLeft and ArrowRight, change neither    *)
(* activeId nor moves; with orientation "both", or on an item of a grid    *)
(* row, each arrow key navigates: the id that up, right = next, down or    *)
(* left = previous gives is moved to, when there is one.                   *)
(***************************************************************************)
\* the active item, which has the focus, belongs to a row
FocusedInRow ==
  \E i \in 1..Len(items) : items[i].id = activeId /\ items[i].rowId # NoRow

\* the key is on the axis the orientation excludes
OffAxis(key) ==
  \/ orientation = "horizontal" /\ key \in {"ArrowUp", "ArrowDown"}
  \/ orientation = "vertical" /\ key \in {"ArrowLeft", "ArrowRight"}

\* the primitive an arrow key stands for
Navigated(key) ==
  CASE key = "ArrowUp" -> up(NoSkip, activeId)
    [] key = "ArrowRight" -> next(NoSkip, activeId)
    [] key = "ArrowDown" -> down(NoSkip, activeId)
    [] key = "ArrowLeft" -> previous(NoSkip, activeId)

C28_OrientationGate ==
  [][op' \in ArrowKeys =>
       IF ~FocusedInRow /\ OffAxis(op')
       THEN activeId' = activeId /\ moves' = moves /\ result' = Unhandled
       ELSE /\ result' = Navigated(op')
            /\ IF result' = Undefined
               THEN activeId' = activeId /\ moves' = moves
               ELSE activeId' = result' /\ moves' = moves + 1]_vars

\* ArrowDown on a grid item moved to the item below, the orientation
\* being "horizontal"
C28_Witness ==
  /\ op = "ArrowDown" /\ orientation = "horizontal"
  /\ arg = "A" /\ activeId = "C" /\ moves = 1
  /\ \E i \in 1..Len(items) : items[i].id = "A" /\ items[i].rowId # NoRow

\* ArrowDown on an item of a horizontal one-dimensional composite that has
\* enabled items after it: nothing moved
C28_WitnessGated ==
  /\ op = "ArrowDown" /\ orientation = "horizontal" /\ result = Unhandled
  /\ arg = "A" /\ activeId = "A" /\ moves = 0
  /\ Len(items) = 3 /\ \A i \in 1..3 : items[i].rowId = NoRow /\ ~items[i].disabled

(***************************************************************************)
(* C29: an axis-restricted focusLoop applies to its axis only.  In a grid  *)
(* with focusLoop = "vertical" and focusWrap off, next() (previous()) from *)
(* the last (first) enabled item of a row returns undefined, for every     *)
(* orientation; with focusLoop = "horizontal", down() (up()) from an       *)
(* enabled item of the last (first) row does not loop: it returns no item. *)
(***************************************************************************)
C29_AxisLoop ==
  /\ (/\ op \in {"next", "previous"} /\ skipArg = NoSkip /\ ActiveInGrid
      /\ focusLoop = "vertical" /\ focusWrap = "false"
      /\ ~renderedItems[ActiveIdx].disabled /\ Beyond = {})
       => result = Undefined
  /\ (/\ op \in {"down", "up"} /\ skipArg = NoSkip /\ ActiveInGrid
      /\ focusLoop = "horizontal" /\ focusWrap = "false"
      /\ ~renderedItems[ActiveIdx].disabled
      /\ ActiveRow = (IF op = "down" THEN Len(Rows) ELSE 1))
       => result \in {Undefined, Null}

(***************************************************************************)
(* C30: in every reachable state under registerItem, renderItem and their  *)
(* callbacks in any order, no two entries of items share an id, and no two *)
(* entries of the rendered list do.                                        *)
(***************************************************************************)
\* no two entries of the list share an id
UniqueIds(list) ==
  \A i, j \in 1..Len(list) :
     (i < j /\ list[i] # HOLE /\ list[j] # HOLE) => list[i].id # list[j].id

C30_UniqueIds ==
  UniqueIds(items) /\ UniqueIds(privRendered) /\ UniqueIds(renderedItems)

(***************************************************************************)
(* C31: once every unregister callback returned by registerItem and        *)
(* renderItem has been invoked, in any order, items and the rendered list  *)
(* are what they were before the first registration: empty.                *)
(***************************************************************************)
\* calls were made and no callback is left to invoke
AllUnregistered == regs > 0 /\ \A k \in 1..MaxCbs : ~cbs[k].used

C31_AllUndone ==
  AllUnregistered => (items = <<>> /\ privRendered = <<>>)

(***************************************************************************)
(* C32: reconciliation is eventually consistent and quiesces.  After the   *)
(* renderItem and unregister calls of a run, frames being delivered, the   *)
(* store reaches and stays in a state with no frame pending where the      *)
(* public renderedItems is the rendered list, in ascending document        *)
(* position; a frame that follows a frame (the one a reorder causes)       *)
(* changes nothing and leaves no frame pending.                            *)
(***************************************************************************)
Quiescent ==
  /\ raf = 0 /\ renderedItems = privRendered /\ InDocumentOrder(renderedItems)

C33_NeverLeftUndefined ==
  activeId = Undefined => EnabledIdx(renderedItems) = {}

(***************************************************************************)
(* C34: every id that next, previous, up, down, first or last returns,     *)
(* other than null and undefined, is the id of an enabled item of          *)
(* renderedItems: never the id of a disabled item, never the id of a       *)
(* placeholder, with or without focusShift and with or without skip.       *)
(***************************************************************************)
C34_EnabledRendered ==
  (op \in Primitives /\ result \notin {Null, Undefined}) =>
     /\ result # EMPTY_ITEM_ID
     /\ \E i \in EnabledIdx(renderedItems) : renderedItems[i].id = result
     /\ \A i \in 1..Len(renderedItems) :
          renderedItems[i].id = result => ~renderedItems[i].disabled

\* grid [[A,B],[C,D]] with C disabled, focusShift on: down() from A is D
C34_Witness ==
  /\ op = "down" /\ skipArg = NoSkip /\ focusShift /\ IsGridList
  /\ Len(Rows) = 2 /\ Len(Rows[1]) = 2 /\ Len(Rows[2]) = 2
  /\ EnabledIdx(renderedItems) = {1, 2, 4}
  /\ activeId = "A" /\ result = "D"

(***************************************************************************)
(* C35: in a one-dimensional composite with includesBaseElement true and   *)
(* focusLoop false, previous() from the first enabled item returns null    *)
(* and next() from the last enabled item returns undefined; next() never   *)
(* returns null there, whatever the active item: without looping the       *)
(* container is a stop when moving backwards only.  First and last are     *)
(* taken in the order of navigation; no skip is given.                     *)
(***************************************************************************)
C35_BackwardsOnly ==
  (/\ op \in {"next", "previous"} /\ skipArg = NoSkip /\ IsOneDim
   /\ includesBaseElement /\ focusLoop = "false" /\ NavEnabledIds # <<>>) =>
     /\ (op = "previous" /\ activeId = NavEnabledIds[1]) => result = Null
     /\ (op = "next" /\ ActiveIsLastEnabledInNavOrder) => result = Undefined
     /\ op = "next" => result # Null

\* [A,B], activeId = A: previous() is null, and next() from B is undefined
C35_Witness ==
  /\ op = "previous" /\ skipArg = NoSkip /\ IsOneDim /\ ~rtl
  /\ Len(renderedItems) = 2 /\ EnabledIdx(renderedItems) = {1, 2}
  /\ includesBaseElement /\ focusLoop = "false"
  /\ activeId = "A" /\ result = Null /\ next(NoSkip, "B") = Undefined

(***************************************************************************)
(* C36: on a grid (every rendered item has a rowId) horizontal navigation  *)
(* never focuses the container: next() and previous() never return null,   *)
(* whatever includesBaseElement, focusLoop and focusWrap are; and down()    *)
(* returns null only when vertical looping is enabled.                     *)
(***************************************************************************)
C36_NoContainerInRows ==
  IsGridList =>
    /\ op \in {"next", "previous"} => result # Null
    /\ (op = "down" /\ result = Null) =>
         (Truthy(focusLoop) /\ focusLoop # "horizontal")

(***************************************************************************)
(* C37: with focusLoop enabled in a one-dimensional composite that does    *)
(* not include the base element and has n >= 2 enabled rendered items,     *)
(* repeatedly committing move(next()) from an enabled active item makes    *)
(* every enabled item active: each step returns and activates the enabled  *)
(* item that follows the active one, the first one after the last (never   *)
(* undefined, never a disabled item), so the n steps from an item visit    *)
(* the n enabled items in order and end on the item they started from.     *)
(* focusLoop enabled is true or an axis setting that applies to the        *)
(* orientation; order is the order of navigation.                          *)
(***************************************************************************)
LoopCase ==
  /\ IsOneDim /\ ~includesBaseElement /\ Applies(focusLoop, orientation)
  /\ Len(NavEnabledIds) >= 2
  /\ \E k \in 1..Len(NavEnabledIds) : NavEnabledIds[k] = activeId
\* the j-th enabled item after the active one, around the end of the list
EnabledAhead(j) ==
  LET n == Len(NavEnabledIds)
      pos == CHOOSE k \in 1..n : NavEnabledIds[k] = activeId
  IN NavEnabledIds[((pos + j - 1) % n) + 1]
LoopIds == {IdNames[i] : i \in 1..MaxItems}

Step == IF op = "up" THEN -1 ELSE 1
TargetRow == ActiveRow + Step
FurtherRows(c) ==
  {q \in 1..Len(Rows) : (q - ActiveRow) * Step > 0 /\ EnabledCell(q, c)}
NearestFurtherRow(c) ==
  CHOOSE q \in FurtherRows(c) :
    \A p \in FurtherRows(c) : (q - ActiveRow) * Step <= (p - ActiveRow) * Step
EnabledBefore(r, c) == {q \in 1..(c - 1) : EnabledCell(r, q)}
ShiftCase ==
  /\ op \in {"down", "up"} /\ skipArg = NoSkip /\ ActiveInGrid
  /\ EnabledCell(ActiveRow, ActiveCol)
  /\ TargetRow \in 1..Len(Rows) /\ ~EnabledCell(TargetRow, ActiveCol)
  /\ ~Applies(focusLoop, "vertical") /\ ~Applies(focusWrap, "vertical")
  /\ ~includesBaseElement

C39_OneMovePerKey ==
  [][op' \in AllKeys =>
       /\ moves' \in {moves, moves + 1}
       /\ moves' = moves + 1 => activeId' = result'
       /\ moves' = moves => activeId' = activeId
       /\ (result' = Undefined \/ snap'.call = MoveOnKeyPress(FALSE)) =>
            (activeId' = activeId /\ moves' = moves)
       /\ op' \in OtherKeys =>
            (activeId' = activeId /\ moves' = moves /\ result' = Unhandled)]_vars

\* ArrowRight on A of [A,B,...] with moveOnKeyPress false: the candidate is
\* B and nothing moved
C39_Witness ==
  /\ op = "ArrowRight" /\ snap.call = MoveOnKeyPress(FALSE)
  /\ arg = "A" /\ result = "B" /\ activeId = "A" /\ moves = 0

\* PageDown on A of a grid moved to an item below, once
C39_WitnessPage ==
  /\ op = "PageDown" /\ snap.call = MoveOnKeyPress(TRUE)
  /\ arg = "A" /\ result = "C" /\ activeId = "C" /\ moves = 1

====
